---------------------------- MODULE Spec2Model ----------------------------
(***************************************************************************)
(* ph-map: PhMap (a map whose values live in slots addressed by a perfect  *)
(* hash function) and PhStrMap (PhMap over a trimmed byte range of string  *)
(* keys), src/src/lib.rs.                                                  *)
(*                                                                         *)
(* Values are tokens 1, 2, 3, ... in the order they are handed to the map, *)
(* so that where each value is, and how often it is destroyed, can be      *)
(* followed.  The perfect hash function of the ph crate is outside the     *)
(* repository: it is modelled by its contract (injective on the keys it    *)
(* was built from, any slot or none for any other key), with the slot a    *)
(* hash value prefers chosen freely in the initial state.                  *)
(***************************************************************************)
EXTENDS Integers, Sequences, FiniteSets, TLC

\* ------------------------------------------------------------- bounds

\* Values handed to the map over one run (all extends together).
MaxVals == 4
\* Longest batch one extend is given.
MaxBatch == 2
\* Slots the perfect hash function may use beyond the number of its keys.
Slack == 3

\* Most byte sequences handed to smallest_uncommon_range at once, and the longest.
MaxStrs == 3
MaxStrLen == 3

\* Keys of the generic PhMap, and the strings a PhStrMap is given: byte strings.
Keys == {<<1>>, <<2>>, <<1, 1>>}
Strs == {<<1>>, <<1, 1>>, <<1, 2>>, <<2, 1>>, <<2, 2>>}
\* The bytes of the sequences smallest_uncommon_range is applied to on its own.
Bytes == {1, 2}
\* Values of the 64-bit key hash that occur.
Hashes == {0, 1}
\* Slots a hash value may prefer (before reduction to the function's range).
Seeds == 0 .. 4

\* ----------------------------------------------------------- constants

\* Option::None of an index.
NoIdx == -1
\* A MaybeUninit cell that holds no value: never written, or moved out of.
Vacant == 0
\* Bits that are no value of the map (what a write outside the allocation leaves).
Garbage == -1
\* Vec's smallest non-zero capacity (the "4" of the comment in extend).
MinNonZeroCap == 4

VARIABLES
    debug,              \* debug_assertions of the build (debug_assert!, unsafe precondition checks)
    kind,               \* "PhMap" or "PhStrMap": the map this run owns
    level0,             \* the hash function's preferred slot per hash value
    pc,                 \* "live"; "panicked" (a call unwinds: the map can only be
                        \* dropped); "dropped"; "aborted" (process ended); "hung"
    keys,               \* PhMap.keys
    top_level_hashes,   \* PhMap.top_level_hashes (index i is element i + 1)
    values,             \* PhMap.values: [len, cap, cell]
    to_index,           \* PhMap.to_index: [n, bits, assign]
    range,              \* PhStrMap.range: [start, end]
    given,              \* given[t]: the key (and full string) value t was handed in with
    drops,              \* drops[t]: how often value t was destroyed
    written,            \* slots written by the most recent rebuild
    ret                 \* the last operation and its outcome

vars == <<debug, kind, level0, pc, keys, top_level_hashes, values, to_index,
          range, given, drops, written, ret>>

\* ------------------------------------------------------------- helpers

Max(a, b) == IF a >= b THEN a ELSE b

RECURSIVE SumSeq(_)
SumSeq(s) == IF s = <<>> THEN 0 ELSE Head(s) + SumSeq(Tail(s))

Range(s) == {s[i] : i \in 1 .. Len(s)}

\* Sequences over S of length at most n.
SeqsUpTo(S, n) == UNION {[1 .. m -> S] : m \in 0 .. n}

\* Memory cells that can be addressed: every slot the hash function can return.
MemTop == MaxVals + Slack + 1
Cells == 0 .. (MemTop - 1)

\* hasher.hash_one(key, 0): the top-level hash of a key, a fixed function of its
\* bytes (here with two values, so that keys collide and the hash 0 occurs).
HashOne(key) == (SumSeq(key) + Len(key)) % 2


\* ------------------------------------------- the perfect index function

RECURSIVE NextPowerOfTwo(_)
NextPowerOfTwo(n) == IF n <= 1 THEN 1 ELSE 2 * NextPowerOfTwo((n + 1) \div 2)

RECURSIVE ILog2(_)
ILog2(n) == IF n <= 1 THEN 0 ELSE 1 + ILog2(n \div 2)

\* bits of extend: keys.len().next_power_of_two().ilog(2) + 1.
Bits(n) == ILog2(NextPowerOfTwo(n)) + 1

\* Number of slots a function over n keys spreads them over.
OutputRange(n) == n + Slack

\* The slot a hash value leads to first, NoIdx when it leads nowhere.
Level0Slot(hash, n) ==
    IF level0[hash] = NoIdx THEN NoIdx ELSE level0[hash] % OutputRange(n)

\* The first slot from `start` on (cyclically, in a range of r slots) not in `used`.
FirstFree(start, used, r) ==
    LET d == CHOOSE d \in 0 .. (r - 1) :
                 /\ ((start + d) % r) \notin used
                 /\ \A e \in 0 .. (d - 1) : ((start + e) % r) \in used
    IN  (start + d) % r

\* Keys are placed in order: each at the slot its hash prefers, or the next free one.
RECURSIVE Place(_, _, _)
Place(ks, i, assign) ==
    IF i > Len(ks) THEN assign
    ELSE IF ks[i] \in DOMAIN assign THEN Place(ks, i + 1, assign)
    ELSE LET s0   == Level0Slot(HashOne(ks[i]), Len(ks))
             used == {assign[k] : k \in DOMAIN assign}
             s    == FirstFree(IF s0 = NoIdx THEN 0 ELSE s0, used, OutputRange(Len(ks)))
         IN  Place(ks, i + 1, assign @@ (ks[i] :> s))

\* Function::with_vec_p_hash_sc(key_refs, Params::new(BitsFast(bits), ..), ..).
WithVecPHashSc(ks, bits) == [n |-> Len(ks), bits |-> bits, assign |-> Place(ks, 1, <<>>)]

\* to_index.get_with_top_level_hash(key, hash): the slot of `key`, whose hash is
\* `hash`; for a key the function was not built from, wherever the hash leads.
GetWithTopLevelHash(f, key, hash) ==
    IF key \in DOMAIN f.assign /\ hash = HashOne(key)
    THEN f.assign[key]
    ELSE Level0Slot(hash, f.n)

\* to_index.get(key): hashes the key itself.
PifGet(f, key) == GetWithTopLevelHash(f, key, HashOne(key))

\* ------------------------------------------------------------ Vec<V>

\* Vec::reserve(additional): capacity afterwards (RawVec::grow_amortized).  With
\* len > cap the unsigned cap - len wraps and nothing grows.
Reserve(len, cap, additional) ==
    IF len <= cap /\ additional > cap - len
    THEN Max(Max(2 * cap, len + additional), MinNonZeroCap)
    ELSE cap

\* Vec::shrink_to_fit: capacity afterwards.
ShrinkToFit(len, cap) == IF cap > len THEN len ELSE cap

\* A reallocation carries over the cells inside the old and the new allocation only.
Realloc(cell, oldcap, newcap) ==
    IF newcap = oldcap THEN cell
    ELSE [i \in Cells |-> IF i < oldcap /\ i < newcap THEN cell[i] ELSE Vacant]

\* Values destroyed: each value of `toks` once more.
Destroy(d, toks) == [t \in DOMAIN d |-> IF t \in toks THEN d[t] + 1 ELSE d[t]]

\* The values (tokens) among items i .. Len(items).
ValsFrom(items, i) == {items[j].val : j \in i .. Len(items)} \ {Vacant, Garbage}

\* ------------------------------------------------------- PhMap::extend

\* What a write outside the allocated cells can do: the value lands beyond the
\* allocation, other bits end up there, or the process dies.
OobOutcomes == {"land", "clobber", "crash"}

\* take_unchecked(&self.values, &self.to_index, key): the bits of the key's cell
\* (the cell's value moves out).
TakeUnchecked(cell, f, key) ==
    LET v == cell[PifGet(f, key)] IN IF v = Vacant THEN Garbage ELSE v

\* all_unique over the indices: whether idx was returned before.
IndexSeenNever(idx, used) == FALSE
IndexSeen(idx, used) == idx \in used

\* The length given to values (set_len) once max_idx is known.
SetLenShort(max_idx) == max_idx
SetLen(max_idx) == max_idx + 1

\* One pass of the closure of lines 214-240 for item i, then all_unique's test of
\* the index it returned.  st.res: "run", "dup" (all_unique stopped), "panic"
\* (unwrap or debug_assert), "crash" (the process died on a write).  st.short:
\* at some write the conditions of lines 229-230 did not hold.
WriteStep(f, items, i, st, oob) ==
    LET it      == items[i]
        idx     == GetWithTopLevelHash(f, it.key, it.hash)
        max_idx == Max(st.max_idx, idx)
        cap     == IF max_idx + 1 >= st.cap
                   THEN Reserve(st.len, st.cap, max_idx + 1 - st.cap)
                   ELSE st.cap
        cell    == Realloc(st.cell, st.cap, cap)
        hlen    == Max(Len(st.hashes), max_idx + 1)
        hashes  == [j \in 1 .. hlen |-> IF j <= Len(st.hashes) THEN st.hashes[j] ELSE 0]
    IN  IF idx = NoIdx
        THEN [st EXCEPT !.res = "panic", !.dropped = @ \cup ValsFrom(items, i)]
        ELSE IF debug /\ ~(cap > max_idx /\ hlen > max_idx)
        THEN [st EXCEPT !.res = "panic", !.cap = cap, !.cell = cell, !.hashes = hashes,
                        !.max_idx = max_idx, !.dropped = @ \cup ValsFrom(items, i),
                        !.short = TRUE]
        ELSE IF idx >= cap /\ oob = "crash"
        THEN [st EXCEPT !.res = "crash", !.oob = TRUE, !.short = TRUE]
        ELSE [max_idx |-> max_idx,
              len     |-> SetLen(max_idx),
              cap     |-> cap,
              cell    |-> [cell EXCEPT ![idx] =
                              IF idx >= cap /\ oob = "clobber" THEN Garbage ELSE it.val],
              hashes  |-> [hashes EXCEPT ![idx + 1] = it.hash],
              seen    |-> st.seen \cup {idx},
              oob     |-> st.oob \/ idx >= cap,
              short   |-> st.short \/ ~(cap > max_idx /\ hlen > max_idx),
              res     |-> IF IndexSeen(idx, st.seen) THEN "dup" ELSE "run",
              dropped |-> IF IndexSeen(idx, st.seen)
                          THEN st.dropped \cup ValsFrom(items, i + 1)
                          ELSE st.dropped]

RECURSIVE WriteLoop(_, _, _, _, _)
WriteLoop(f, items, i, st, oob) ==
    IF i > Len(items) \/ st.res # "run" THEN st
    ELSE WriteLoop(f, items, i + 1, WriteStep(f, items, i, st, oob), oob)

\* The map a PhMap::extend(kv) leaves, and how it ended.  m: [keys,
\* top_level_hashes, values, to_index]; kv: the batch, a sequence of [key, val].
\* res: "ok"; "panic" (the assert, unwrap or debug_assert failed and the call
\* unwinds); "abort" (a checked unsafe precondition failed, or a write outside
\* the allocation killed the process).
ExtendResult(m, kv, oob) ==
    LET old     == [i \in 1 .. Len(m.keys) |->
                       [key |-> m.keys[i],
                        val |-> TakeUnchecked(m.values.cell, m.to_index, m.keys[i])]]
        taken   == {PifGet(m.to_index, m.keys[i]) : i \in 1 .. Len(m.keys)}
        cell0   == [c \in Cells |-> IF c \in taken THEN Vacant ELSE m.values.cell[c]]
        merged  == old \o kv
        items   == [i \in 1 .. Len(merged) |->
                       [key |-> merged[i].key, val |-> merged[i].val,
                        hash |-> HashOne(merged[i].key)]]
        newkeys == [i \in 1 .. Len(items) |-> items[i].key]
        f       == WithVecPHashSc(newkeys, Bits(Len(newkeys)))
        st0     == [max_idx |-> Len(newkeys), len |-> 0, cap |-> m.values.cap,
                    cell |-> cell0, hashes |-> [j \in 1 .. Len(newkeys) |-> 0],
                    seen |-> {}, oob |-> FALSE, short |-> FALSE, res |-> "run",
                    dropped |-> {}]
        st      == WriteLoop(f, items, 1, st0, oob)
    IN  IF debug /\ Len(m.keys) > 0
        THEN \* slice::get_unchecked on the slice of length 0 fails its checked precondition
             [keys |-> m.keys, top_level_hashes |-> m.top_level_hashes,
              values |-> [m.values EXCEPT !.len = 0], to_index |-> m.to_index,
              written |-> {}, res |-> "abort", dropped |-> {}, oob |-> FALSE,
              short |-> FALSE]
        ELSE [keys             |-> IF st.res = "run" THEN newkeys ELSE <<>>,
              top_level_hashes |-> st.hashes,
              values           |-> [len  |-> st.len,
                                    cap  |-> IF st.res = "run"
                                             THEN ShrinkToFit(st.len, st.cap) ELSE st.cap,
                                    cell |-> IF st.res = "run"
                                             THEN Realloc(st.cell, st.cap,
                                                          ShrinkToFit(st.len, st.cap))
                                             ELSE st.cell],
              to_index         |-> f,
              written          |-> st.seen,
              res              |-> CASE st.res = "run" -> "ok"
                                     [] st.res = "crash" -> "abort"
                                     [] OTHER -> "panic",
              dropped          |-> st.dropped,
              oob              |-> st.oob,
              short            |-> st.short]

\* ---------------------------------------------------- PhMap: reading

\* The PhMap of the current state.
Map == [keys |-> keys, top_level_hashes |-> top_level_hashes, values |-> values,
        to_index |-> to_index]

\* Option<&V>: None, or the slot referred to and the bits in it.
None == [some |-> FALSE, idx |-> NoIdx, val |-> Vacant]
Some(idx) == [some |-> TRUE, idx |-> idx, val |-> values.cell[idx]]

\* PhMap::get(key) (get_mut is the same, for a mutable reference).
Get(key) ==
    LET hash == HashOne(key)
        idx  == GetWithTopLevelHash(to_index, key, hash)
    IN  IF idx = NoIdx THEN None
        ELSE IF idx >= Len(top_level_hashes) THEN None
        ELSE IF top_level_hashes[idx + 1] = hash THEN Some(idx)
        ELSE None

\* PhMap::get_unchecked(key) (get_unchecked_mut likewise); `key` must be in the map.
GetUnchecked(key) == Some(PifGet(to_index, key))

\* ------------------------------------------------------- PhMap: Drop

\* *dropped.get_unchecked(idx): the marker of slot idx.  `dropped` has values.len()
\* bits; beyond them the read is outside the bit vector and gives either bit (m).
AlreadyDroppedNever(idx, dropped, len, m) == FALSE
AlreadyDropped(idx, dropped, len, m) ==
    IF idx >= len /\ idx \notin dropped THEN m ELSE idx \in dropped

\* drop: every key's slot, found through to_index with the hash h[key] that the
\* key's Hash gives now, is destroyed unless its marker in `dropped` is set.
\* st: [dropped, drops, bad, out, slots, destroyed, res]; bad: slots destroyed that
\* held no value; out: slots at or beyond values.len() that were accessed; slots:
\* the slot of each key, in order; destroyed: drop_in_place calls per slot; res:
\* "abort" when a checked unsafe precondition (values.get_unchecked_mut) failed.
RECURSIVE DropWith(_, _, _, _, _)
DropWith(ks, i, st, h, m) ==
    IF i > Len(ks) \/ st.res = "abort" THEN st
    ELSE LET idx  == GetWithTopLevelHash(to_index, ks[i], h[ks[i]])
             v    == values.cell[idx]
             seen == [st EXCEPT !.slots = Append(@, idx),
                                !.out = IF idx >= values.len THEN @ \cup {idx} ELSE @]
         IN  IF idx = NoIdx
             THEN DropWith(ks, i + 1, [st EXCEPT !.slots = Append(@, idx)], h, m)
             ELSE IF AlreadyDropped(idx, st.dropped, values.len, m)
             THEN DropWith(ks, i + 1, seen, h, m)
             ELSE IF debug /\ idx >= values.len
             THEN [seen EXCEPT !.res = "abort"]
             ELSE DropWith(ks, i + 1,
                      [seen EXCEPT !.dropped = @ \cup {idx},
                                   !.drops = IF v \in DOMAIN st.drops
                                             THEN Destroy(st.drops, {v}) ELSE st.drops,
                                   !.bad = IF v \in DOMAIN st.drops
                                           THEN st.bad ELSE st.bad \cup {idx},
                                   !.destroyed[idx] = @ + 1],
                      h, m)

\* The state drop starts in: `dropped` all zero (line 112).
DropStart == [dropped |-> {}, drops |-> drops, bad |-> {}, out |-> {}, slots |-> <<>>,
              destroyed |-> [c \in Cells |-> 0], res |-> "run"]

\* drop with the hash every key had at the rebuild.
DropLoop(ks, i, st) == DropWith(ks, i, st, [k \in Range(ks) |-> HashOne(k)], FALSE)

DropResult == DropLoop(keys, 1, DropStart)

\* ------------------------------------------- smallest_uncommon_range

\* strs.map(|i| i[start]).all_equal(): the bytes at offset `start` are read in
\* order up to the first that differs.  "eq", "ne", or "oob" (an index panic).
RECURSIVE AllEqualFrom(_, _, _)
AllEqualFrom(strs, i, start) ==
    IF i > Len(strs) THEN "eq"
    ELSE IF start >= Len(strs[i]) THEN "oob"
    ELSE IF strs[i][start + 1] # strs[1][start + 1] THEN "ne"
    ELSE AllEqualFrom(strs, i + 1, start)

\* strs.map(|s| &s[start..end]).all_unique(): the slices are taken in order up to
\* the first repeated one.  "unique", "dup", or "oob" (a slice panic).
RECURSIVE AllUniqueFrom(_, _, _, _, _)
AllUniqueFrom(strs, i, start, end, used) ==
    IF i > Len(strs) THEN "unique"
    ELSE IF end > Len(strs[i]) THEN "oob"
    ELSE IF SubSeq(strs[i], start + 1, end) \in used THEN "dup"
    ELSE AllUniqueFrom(strs, i + 1, start, end,
                       used \cup {SubSeq(strs[i], start + 1, end)})

\* The second loop: out.end grows until the slices are unique.
RECURSIVE GrowEnd(_, _, _)
GrowEnd(strs, start, end) ==
    LET u == AllUniqueFrom(strs, 1, start, end, {})
    IN  IF u = "unique" THEN [res |-> "ok", start |-> start, end |-> end]
        ELSE IF u = "oob" THEN [res |-> "panic", start |-> start, end |-> end]
        ELSE GrowEnd(strs, start, end + 1)

\* The first loop left out: the scan for the range starts where it is told to.
SkipCommonNever(strs, start) == GrowEnd(strs, start, start + 1)

\* The first loop: start grows while all strings agree on the byte at start.  Over
\* no strings they agree at every offset and the loop has no exit.
RECURSIVE SkipCommon(_, _)
SkipCommon(strs, start) ==
    LET e == AllEqualFrom(strs, 1, start)
    IN  IF strs = <<>> THEN [res |-> "hang", start |-> start, end |-> start]
        ELSE IF e = "oob" THEN [res |-> "panic", start |-> start, end |-> start]
        ELSE IF e = "eq" THEN SkipCommon(strs, start + 1)
        ELSE GrowEnd(strs, start, start + 1)

smallest_uncommon_range(strs) == SkipCommon(strs, 0)

\* Range::is_empty.
IsEmpty(r) == r.start >= r.end

\* ------------------------------------------------------------ actions

Zeros(n) == [i \in 1 .. n |-> 0]

\* With debug_assertions no write reaches a cell outside the allocation.
Oob == IF debug THEN {"land"} ELSE OobOutcomes

Init ==
    /\ debug \in BOOLEAN
    /\ kind \in {"PhMap", "PhStrMap"}
    /\ level0 \in [Hashes -> Seeds \cup {NoIdx}]
    /\ pc = "live"
    /\ keys = <<>>
    /\ top_level_hashes = <<>>
    /\ values = [len |-> 0, cap |-> 0, cell |-> [c \in Cells |-> Vacant]]
    /\ to_index = WithVecPHashSc(<<>>, 0)
    /\ range = [start |-> 0, end |-> 0]
    /\ given = <<>>
    /\ drops = <<>>
    /\ written = {}
    /\ ret = [op |-> "default", res |-> "ok", batch |-> <<>>, prev |-> <<>>,
              oob |-> FALSE, short |-> FALSE, allok |-> TRUE]

\* The effect of PhMap::extend on the state: `full` are the keys as the caller
\* gave them, `ks` as the PhMap gets them; the values are the next tokens.
DoExtend(full, ks, oob) ==
    LET first == Len(given)
        kv    == [i \in 1 .. Len(ks) |-> [key |-> ks[i], val |-> first + i]]
    IN  \E r \in {ExtendResult(Map, kv, oob)} :
        /\ keys' = r.keys
        /\ top_level_hashes' = r.top_level_hashes
        /\ values' = r.values
        /\ to_index' = r.to_index
        /\ written' = r.written
        /\ given' = given \o [i \in 1 .. Len(ks) |-> [key |-> ks[i], full |-> full[i]]]
        /\ drops' = Destroy(drops \o Zeros(Len(ks)), r.dropped)
        /\ pc' = CASE r.res = "abort" -> "aborted"
                   [] r.res = "panic" -> "panicked"
                   [] OTHER -> "live"
        /\ ret' = [op |-> "extend", res |-> r.res, batch |-> full, prev |-> keys,
                   oob |-> r.oob, short |-> r.short,
                   allok |-> ret.allok /\ r.res = "ok"]

\* PhMap::extend(kv).
Extend ==
    /\ pc = "live" /\ kind = "PhMap"
    /\ \E b \in SeqsUpTo(Keys, MaxBatch), oob \in Oob :
          /\ Len(given) + Len(b) <= MaxVals
          /\ DoExtend(b, b, oob)
    /\ UNCHANGED <<debug, kind, level0, range>>

\* PhMap::insert(key, value): extend with the one pair.
Insert ==
    /\ pc = "live" /\ kind = "PhMap"
    /\ \E k \in Keys, oob \in Oob :
          /\ Len(given) + 1 <= MaxVals
          /\ DoExtend(<<k>>, <<k>>, oob)
    /\ UNCHANGED <<debug, kind, level0, range>>

\* PhMap::get / get_mut: the state is read, not changed.
GetAction ==
    /\ pc = "live" /\ kind = "PhMap"
    /\ \E k \in Keys : Get(k) \in {None} \cup {Some(i) : i \in Cells}
    /\ UNCHANGED vars

\* PhMap::get_unchecked / get_unchecked_mut, for a key of the map.
GetUncheckedAction ==
    /\ pc = "live" /\ kind = "PhMap"
    /\ \E k \in Range(keys) : GetUnchecked(k) \in {Some(i) : i \in Cells}
    /\ UNCHANGED vars

\* The PhMap is dropped.
Drop ==
    /\ pc \in {"live", "panicked"} /\ kind = "PhMap"
    /\ pc' = "dropped"
    /\ drops' = DropResult.drops
    /\ ret' = [op |-> "drop", res |-> IF DropResult.bad = {} THEN "ok" ELSE "ub",
               batch |-> <<>>, prev |-> keys, oob |-> ret.oob, short |-> ret.short,
               allok |-> ret.allok]
    /\ UNCHANGED <<debug, kind, level0, keys, top_level_hashes, values, to_index,
                   range, given, written>>

\* The PhMap is dropped while the Hash of its keys is ill-behaved: at teardown a
\* key may hash to another value than at the last rebuild.
DropIll ==
    /\ pc \in {"live", "panicked"} /\ kind = "PhMap"
    /\ \E h \in [Range(keys) -> Hashes], m \in BOOLEAN :
       \E r \in {DropWith(keys, 1, DropStart, h, m)} :
          /\ pc' = IF r.res = "abort" THEN "aborted" ELSE "dropped"
          /\ drops' = r.drops
          /\ ret' = [op |-> "drop",
                     res |-> CASE r.res = "abort" -> "abort"
                               [] r.bad # {} \/ r.out # {} -> "ub"
                               [] OTHER -> "ok",
                     batch |-> <<>>, prev |-> keys, oob |-> ret.oob, short |-> ret.short,
                     allok |-> ret.allok, slots |-> r.slots, destroyed |-> r.destroyed,
                     bad |-> r.bad, out |-> r.out,
                     ill |-> \E k \in Range(keys) : h[k] # HashOne(k)]
    /\ UNCHANGED <<debug, kind, level0, keys, top_level_hashes, values, to_index,
                   range, given, written>>

\* ------------------------------------------------------------ PhStrMap

\* The keys of a batch cut to the range r (lines 51-54).
Trim(b, r) == [i \in 1 .. Len(b) |-> SubSeq(b[i], r.start + 1, r.end)]

\* all_unique over the keys of a batch.
AllUnique(ks) == \A i, j \in 1 .. Len(ks) : i # j => ks[i] # ks[j]

\* The assert of line 56.
RangeAcceptedAlways(r) == TRUE
RangeAccepted(r) == (r.start = range.start /\ r.end = range.end) \/ IsEmpty(range)

\* A PhStrMap::extend that stops before the inner map is touched: the batch's
\* values are destroyed by the unwinding (res = "panic"), or the call never
\* returns (res = "hang").
StrExtendStops(b, res, newrange) ==
    /\ range' = newrange
    /\ given' = given \o [i \in 1 .. Len(b) |-> [key |-> b[i], full |-> b[i]]]
    /\ drops' = IF res = "hang" THEN drops \o Zeros(Len(b))
                ELSE Destroy(drops \o Zeros(Len(b)),
                             (Len(given) + 1) .. (Len(given) + Len(b)))
    /\ pc' = IF res = "hang" THEN "hung" ELSE "panicked"
    /\ ret' = [op |-> "extend", res |-> res, batch |-> b, prev |-> keys,
               oob |-> FALSE, short |-> FALSE, allok |-> FALSE]
    /\ UNCHANGED <<keys, top_level_hashes, values, to_index, written>>

DoStrExtend(b, oob) ==
    LET r  == smallest_uncommon_range(b)
        nr == [start |-> r.start, end |-> r.end]
    IN  IF r.res # "ok" THEN StrExtendStops(b, r.res, range)
        ELSE IF ~RangeAccepted(nr) THEN StrExtendStops(b, "panic", range)
        ELSE IF ~AllUnique(Trim(b, nr)) THEN StrExtendStops(b, "panic", nr)
        ELSE range' = nr /\ DoExtend(b, Trim(b, nr), oob)

\* PhStrMap::extend(kv).
StrExtend ==
    /\ pc = "live" /\ kind = "PhStrMap"
    /\ \E b \in SeqsUpTo(Strs, MaxBatch), oob \in Oob :
          /\ Len(given) + Len(b) <= MaxVals
          /\ DoStrExtend(b, oob)
    /\ UNCHANGED <<debug, kind, level0>>

\* PhStrMap::insert(key, value): extend with the one pair.
StrInsert ==
    /\ pc = "live" /\ kind = "PhStrMap"
    /\ \E k \in Strs, oob \in Oob :
          /\ Len(given) + 1 <= MaxVals
          /\ DoStrExtend(<<k>>, oob)
    /\ UNCHANGED <<debug, kind, level0>>

\* PhStrMap::get(key): the slice panics when the key is shorter than the range.
StrGet(q) ==
    IF Len(q) < range.end THEN [some |-> FALSE, idx |-> NoIdx, val |-> Vacant, panic |-> TRUE]
    ELSE LET g == Get(SubSeq(q, range.start + 1, range.end))
         IN  [some |-> g.some, idx |-> g.idx, val |-> g.val, panic |-> FALSE]

StrGetAction ==
    /\ pc = "live" /\ kind = "PhStrMap"
    /\ \E q \in Strs : StrGet(q).panic \in BOOLEAN
    /\ UNCHANGED vars

\* The PhStrMap is dropped: inner_map is a ManuallyDrop and PhStrMap has no Drop,
\* so the inner PhMap's drop does not run.
StrDrop ==
    /\ pc \in {"live", "panicked"} /\ kind = "PhStrMap"
    /\ pc' = "dropped"
    /\ ret' = [op |-> "drop", res |-> "ok", batch |-> <<>>, prev |-> keys,
               oob |-> ret.oob, short |-> ret.short, allok |-> ret.allok]
    /\ UNCHANGED <<debug, kind, level0, keys, top_level_hashes, values, to_index,
                   range, given, drops, written>>

Next ==
    \/ Extend
    \/ Insert
    \/ GetAction
    \/ GetUncheckedAction
    \/ Drop
    \/ StrExtend
    \/ StrInsert
    \/ StrGetAction
    \/ StrDrop

Spec == Init /\ [][Next]_vars

\* --------------------------------- PhMap with an ill-behaved key hash

InitIll == Init /\ kind = "PhMap"

NextIll ==
    \/ Extend
    \/ Insert
    \/ DropIll

SpecIll == InitIll /\ [][NextIll]_vars

\* ------------------------------- smallest_uncommon_range on its own

\* Every byte sequence of at most MaxStrLen bytes.
ByteStrs == UNION {[1 .. m -> Bytes] : m \in 0 .. MaxStrLen}

\* The collection the function is called with is in ret.batch; no map is involved.
InitRange ==
    /\ debug = FALSE
    /\ kind = "smallest_uncommon_range"
    /\ level0 = [h \in Hashes |-> NoIdx]
    /\ pc = "live"
    /\ keys = <<>>
    /\ top_level_hashes = <<>>
    /\ values = [len |-> 0, cap |-> 0, cell |-> [c \in Cells |-> Vacant]]
    /\ to_index = WithVecPHashSc(<<>>, 0)
    /\ range = [start |-> 0, end |-> 0]
    /\ given = <<>>
    /\ drops = <<>>
    /\ written = {}
    /\ \E strs \in SeqsUpTo(ByteStrs, MaxStrs) :
          ret = [op |-> "call", res |-> "ok", batch |-> strs, prev |-> <<>>,
                 oob |-> FALSE, short |-> FALSE, allok |-> TRUE]

\* smallest_uncommon_range(strs): the range it returns is put in `range`; a call
\* that panics or never returns leaves none.
FindRange ==
    /\ kind = "smallest_uncommon_range" /\ ret.op = "call"
    /\ \E r \in {smallest_uncommon_range(ret.batch)} :
          /\ range' = IF r.res = "ok" THEN [start |-> r.start, end |-> r.end] ELSE range
          /\ pc' = CASE r.res = "ok" -> "live"
                      [] r.res = "panic" -> "panicked"
                      [] OTHER -> "hung"
          /\ ret' = [ret EXCEPT !.op = "range", !.res = r.res, !.allok = (r.res = "ok")]
    /\ UNCHANGED <<debug, kind, level0, keys, top_level_hashes, values, to_index,
                   given, drops, written>>

NextRange == FindRange

SpecRange == InitRange /\ [][NextRange]_vars

\* -------------------------------------------------------------- claims

\* Values handed to the map so far.
Tokens == 1 .. Len(given)

\* The last operation was a PhMap::extend on a default map, with unique keys.
FirstExtendUnique ==
    /\ kind = "PhMap" /\ ret.op = "extend"
    /\ ret.prev = <<>> /\ Len(given) = Len(ret.batch)
    /\ AllUnique(ret.batch)

\* C1: after a single PhMap::extend of unique keys on a default map, get(k)
\* returns the value handed in with k, for every key k of the batch.
C1_RoundTrip ==
    FirstExtendUnique =>
        /\ ret.res = "ok"
        /\ \A t \in Tokens : Get(given[t].key).some /\ Get(given[t].key).val = t

\* C2: after a PhMap::extend, get_unchecked(k) returns the value of k, the same
\* slot and value as get(k), for every key k of the map.
C2_UncheckedAgrees ==
    (kind = "PhMap" /\ pc = "live" /\ ret.op = "extend") =>
        \A t \in Tokens :
            /\ GetUnchecked(given[t].key).val = t
            /\ GetUnchecked(given[t].key) = Get(given[t].key)

\* C2 for the slot alone: after a PhMap::extend, get_unchecked(k) and get(k)
\* select the same slot for every key k of the map.
C2_SameSlot ==
    (kind = "PhMap" /\ pc = "live" /\ ret.op = "extend") =>
        \A t \in Tokens : /\ Get(given[t].key).some
                          /\ GetUnchecked(given[t].key).idx = Get(given[t].key).idx

\* The last operation was a PhMap::extend of a map that held keys, with a batch of
\* unique keys none of which the map held.
MergeDisjoint ==
    /\ kind = "PhMap" /\ ret.op = "extend"
    /\ ret.prev # <<>> /\ ret.batch # <<>>
    /\ AllUnique(ret.prev \o ret.batch)

\* C3: extending a PhMap that holds A with a batch over a disjoint B completes and
\* get(k) returns the value of k for every k of A and of B.
C3_IncrementalMerge ==
    MergeDisjoint =>
        /\ ret.res = "ok"
        /\ \A t \in Tokens : Get(given[t].key).some /\ Get(given[t].key).val = t

\* C4: a PhMap::extend with an empty batch completes and leaves get(k) as it was,
\* for every key k the map held.
C4_EmptyExtend ==
    [][(kind = "PhMap" /\ pc = "live" /\ ret'.op = "extend" /\ ret'.batch = <<>>
        /\ <<given, values, ret>> # <<given', values', ret'>>)
       => (pc' = "live" /\ ret'.res = "ok"
           /\ \A k \in Range(keys) : Get(k)' = Get(k))]_vars

\* Some key was handed to the map twice (in one batch, or in two).
DuplicateGiven == \E i, j \in Tokens : i # j /\ given[i].full = given[j].full

\* C5: an extend (PhMap or PhStrMap) whose keys, with those the map holds, contain
\* a duplicate does not complete.
C5_UniquenessEnforced ==
    (ret.op = "extend" /\ DuplicateGiven) => (ret.res # "ok" /\ pc # "live")

\* An extend in a release build panicked on a batch of unique keys one of which
\* the map already held.
C5_Witness ==
    /\ ret.op = "extend" /\ DuplicateGiven /\ ret.res = "panic"
    /\ ret.prev # <<>> /\ AllUnique(ret.batch)

\* C6: when every PhMap::extend returned and the map is dropped, every value
\* handed to it has been destroyed exactly once, and none before the drop.
C6_DestroyedOnce ==
    (kind = "PhMap" /\ ret.allok) =>
        /\ pc = "live" => \A t \in Tokens : drops[t] = 0
        /\ pc = "dropped" => (ret.res = "ok" /\ \A t \in Tokens : drops[t] = 1)

\* C7: when every PhStrMap::extend returned and the map is dropped, every value
\* stored in it has been destroyed exactly once.
C7_StrDestroyedOnce ==
    (kind = "PhStrMap" /\ ret.allok /\ pc = "dropped") =>
        \A t \in Tokens : drops[t] = 1

\* C8: PhMap::get returns None or a slot inside the slot array that the most
\* recent rebuild wrote.
C8_NoVacantRead ==
    (kind = "PhMap" /\ pc = "live") =>
        \A q \in Keys : Get(q).some => (Get(q).idx \in written /\ Get(q).idx < values.len)

\* A slot that holds a live value: inside the array, its cell holding a value.
Occupied(i) == i < values.len /\ values.cell[i] \in Tokens

\* C9: after a successful PhMap::extend every key's slot is occupied and holds the
\* key's hash, no two keys share a slot, and as many slots are occupied as there
\* are keys.
C9_IndexConsistent ==
    (kind = "PhMap" /\ pc = "live" /\ ret.op = "extend" /\ ret.res = "ok") =>
        /\ \A i \in 1 .. Len(keys) :
              /\ PifGet(to_index, keys[i]) # NoIdx
              /\ Occupied(PifGet(to_index, keys[i]))
              /\ PifGet(to_index, keys[i]) < Len(top_level_hashes)
              /\ top_level_hashes[PifGet(to_index, keys[i]) + 1] = HashOne(keys[i])
        /\ \A i, j \in 1 .. Len(keys) :
              i # j => PifGet(to_index, keys[i]) # PifGet(to_index, keys[j])
        /\ Cardinality({c \in Cells : Occupied(c)}) = Len(keys)

\* C10: between operations the value slots and the verification hashes have the
\* same length, at least the number of keys and above every key's index.
C10_Lengths ==
    (pc = "live") =>
        /\ values.len = Len(top_level_hashes)
        /\ values.len >= Len(keys)
        /\ \A i \in 1 .. Len(keys) : /\ PifGet(to_index, keys[i]) >= 0
                                      /\ PifGet(to_index, keys[i]) < values.len

\* A second extend returned, leaving at least two keys and more slots than keys.
C10_Witness ==
    /\ pc = "live" /\ ret.op = "extend" /\ ret.res = "ok" /\ Len(keys) >= 2
    /\ ret.prev # <<>> /\ values.len > Len(keys) + 1

\* The range smallest_uncommon_range computes for the batch of the last extend.
Candidate(b) == smallest_uncommon_range(b)

\* C11: once a PhStrMap holds a non-empty range, an extend whose batch gives
\* another range panics with the stored range and the inner map untouched, and
\* every extend that returns leaves the stored range as it was.
C11_RangeStable ==
    [][(kind = "PhStrMap" /\ pc = "live" /\ ~IsEmpty(range)
        /\ ret' # ret /\ ret'.op = "extend")
       => /\ (Candidate(ret'.batch).res = "ok"
               /\ <<Candidate(ret'.batch).start, Candidate(ret'.batch).end>>
                      # <<range.start, range.end>>)
              => (ret'.res = "panic" /\ pc' = "panicked" /\ range' = range
                  /\ UNCHANGED <<keys, top_level_hashes, values, to_index>>)
          /\ (ret'.res = "ok" => range' = range)]_vars

\* An extend of a PhStrMap that holds keys under a non-empty range panicked on a
\* batch with another range, the keys still in place.
C11_Witness ==
    /\ kind = "PhStrMap" /\ ret.op = "extend" /\ ret.res = "panic"
    /\ keys # <<>> /\ ~IsEmpty(range)
    /\ Candidate(ret.batch).res = "ok"
    /\ <<Candidate(ret.batch).start, Candidate(ret.batch).end>> # <<range.start, range.end>>

\* The sequences of b agree on their first n bytes.
CommonPrefix(b, n) ==
    \A i \in 1 .. Len(b) : Len(b[i]) >= n /\ SubSeq(b[i], 1, n) = SubSeq(b[1], 1, n)

\* The length of the longest prefix common to all sequences of b.
LongestCommonPrefix(b) ==
    CHOOSE n \in 0 .. MaxStrLen : CommonPrefix(b, n) /\ ~CommonPrefix(b, n + 1)

\* Every sequence of b can be cut to [start, end).
Sliceable(b, end) == \A i \in 1 .. Len(b) : Len(b[i]) >= end

\* The sequences are long enough: behind the common prefix there is a range that
\* all of them cover and that tells them apart.
LongEnough(b) ==
    \E e \in (LongestCommonPrefix(b) + 1) .. MaxStrLen :
        /\ Sliceable(b, e)
        /\ AllUnique(Trim(b, [start |-> LongestCommonPrefix(b), end |-> e]))

\* C12: for at least two pairwise-distinct byte sequences that are long enough,
\* smallest_uncommon_range returns [start, end) with start the length of the
\* longest common prefix, the slices pairwise distinct, and end minimal.
C12_RangeFinder ==
    (ret.op = "range" /\ Len(ret.batch) >= 2 /\ AllUnique(ret.batch)
     /\ LongEnough(ret.batch)) =>
        /\ ret.res = "ok"
        /\ range.start = LongestCommonPrefix(ret.batch)
        /\ range.end > range.start
        /\ Sliceable(ret.batch, range.end)
        /\ AllUnique(Trim(ret.batch, range))
        /\ \/ range.end = range.start + 1
           \/ ~AllUnique(Trim(ret.batch, [start |-> range.start, end |-> range.end - 1]))

\* Three sequences with a common prefix that one byte behind it does not tell apart.
C12_Witness ==
    /\ ret.op = "range" /\ ret.res = "ok" /\ Len(ret.batch) = 3
    /\ AllUnique(ret.batch) /\ LongEnough(ret.batch)
    /\ range.start > 0 /\ range.end > range.start + 1

\* The last operation was a PhStrMap::extend (or insert) on a default map, with
\* at least one key and no key twice.
FirstStrExtendUnique ==
    /\ kind = "PhStrMap" /\ ret.op = "extend"
    /\ ret.prev = <<>> /\ Len(given) = Len(ret.batch)
    /\ ret.batch # <<>> /\ AllUnique(ret.batch)

\* C13: a single PhStrMap::extend or insert of unique string keys (one key
\* included) on a default map returns, and get(k) then returns the value handed
\* in with k, for every key k of the batch.
C13_StrRoundTrip ==
    FirstStrExtendUnique =>
        /\ ret.res = "ok"
        /\ \A t \in Tokens : /\ ~StrGet(given[t].full).panic
                              /\ StrGet(given[t].full).some
                              /\ StrGet(given[t].full).val = t

\* C13 for one key: PhStrMap::insert on a default map returns.
C13_SingleKey ==
    (FirstStrExtendUnique /\ Len(ret.batch) = 1) => ret.res = "ok"

\* The last operation was a PhStrMap::extend of a map that held keys, with a
\* batch whose range is the stored one, no full key handed in twice.
StrMergeSameRange ==
    /\ kind = "PhStrMap" /\ ret.op = "extend"
    /\ ret.prev # <<>> /\ ret.batch # <<>>
    /\ ~DuplicateGiven
    /\ Candidate(ret.batch).res = "ok"
    /\ <<Candidate(ret.batch).start, Candidate(ret.batch).end>> = <<range.start, range.end>>

\* C14: extending a PhStrMap that holds A with a batch B, the full keys of A and
\* B pairwise distinct and the batch's range the stored one, returns, and get(k)
\* then returns the value of k for every k of A and of B.
C14_StrIncremental ==
    StrMergeSameRange =>
        /\ ret.res = "ok"
        /\ \A t \in Tokens : /\ ~StrGet(given[t].full).panic
                              /\ StrGet(given[t].full).some
                              /\ StrGet(given[t].full).val = t

\* C14 where no unsafe precondition is checked and no write left the allocation:
\* the extend returns.
C14_ReturnsWithoutOob ==
    (StrMergeSameRange /\ ~debug /\ ~ret.oob) => ret.res = "ok"

\* C15: in every PhMap::extend, at every write of a value the capacity of
\* `values` and the length of `top_level_hashes` are above max_idx (the
\* conditions of lines 229-230), and no write lands outside the allocation.
C15_StorageLargeEnough ==
    (ret.op = "extend") => (~ret.short /\ ~ret.oob)

\* C15 for the first extend of a default map.
C15_FirstExtend ==
    (ret.op = "extend" /\ ret.prev = <<>> /\ Len(given) = Len(ret.batch)) => ~ret.short

\* Values the map held before the last extend.
HeldBefore == 1 .. (Len(given) - Len(ret.batch))

\* C16: a PhMap::extend of a map that holds keys, rejected because of a duplicate
\* key, leaves keys, slots, verification hashes and index function as they were,
\* get(k) unchanged for the keys held, and a drop of the map after it destroys
\* every value held before the call exactly once.
C16_FailedExtendKeepsState ==
    [][/\ (kind = "PhMap" /\ pc = "live" /\ keys # <<>> /\ ret' # ret
           /\ ret'.op = "extend" /\ ret'.res = "panic" /\ DuplicateGiven')
          => /\ UNCHANGED <<keys, top_level_hashes, values, to_index>>
             /\ \A k \in Range(keys) : Get(k)' = Get(k)
       /\ (kind = "PhMap" /\ pc = "panicked" /\ pc' = "dropped" /\ ret.prev # <<>>
           /\ ret.op = "extend" /\ ret.res = "panic" /\ DuplicateGiven)
          => \A t \in HeldBefore : drops'[t] = 1]_vars

\* C16 for the drop alone: after a PhMap::extend rejected for a duplicate key, a
\* drop of the map destroys every value the map held before the call.
C16_DropAfterFailedExtend ==
    [][(kind = "PhMap" /\ pc = "panicked" /\ pc' = "dropped" /\ ret.prev # <<>>
        /\ ret.op = "extend" /\ ret.res = "panic" /\ DuplicateGiven)
       => \A t \in HeldBefore : drops'[t] = 1]_vars

\* C17: in a drop of a PhMap no slot has its value destroyed twice, also when two
\* keys of the key list lead to one slot at teardown.
C17_NoSlotTwice ==
    (ret.op = "drop") => \A c \in Cells : ret.destroyed[c] <= 1

\* Two keys led to one slot at teardown, and the slot's value was destroyed.
C17_Witness ==
    /\ ret.op = "drop" /\ pc = "dropped"
    /\ \E i, j \in 1 .. Len(ret.slots) :
          /\ i # j /\ ret.slots[i] = ret.slots[j] /\ ret.slots[i] # NoIdx
          /\ ret.destroyed[ret.slots[i]] = 1

\* C18: a drop of a PhMap whose keys hash otherwise than at the last rebuild
\* destroys only slots that hold a value and lie inside the slot array: no vacant
\* slot is destroyed and no index at or beyond values.len() is accessed.
C18_TeardownSafe ==
    (ret.op = "drop" /\ ret.ill /\ ~ret.oob /\ ~ret.short) =>
        (ret.res = "ok" /\ ret.bad = {} /\ ret.out = {})

\* C18 for the bounds alone: no index at or beyond values.len() is accessed.
C18_TeardownInBounds ==
    (ret.op = "drop" /\ ret.ill /\ ~ret.oob /\ ~ret.short) => ret.out = {}

\* C19: a PhStrMap::extend with an empty batch returns and leaves get(q) as it
\* was for every string q.
C19_StrEmptyExtend ==
    [][(kind = "PhStrMap" /\ pc = "live" /\ ret' # ret
        /\ ret'.op = "extend" /\ ret'.batch = <<>>)
       => (pc' = "live" /\ ret'.res = "ok"
           /\ \A q \in Strs : StrGet(q)' = StrGet(q))]_vars

\* C19 for the function alone: the prefix scan of smallest_uncommon_range comes
\* to an end (a range or a panic) for every finite collection.
C19_ScanTerminates ==
    (ret.op = "range") => (ret.res # "hang" /\ pc # "hung")

\* The strings handed to the PhStrMap so far.
FullKeys == {given[t].full : t \in Tokens}

\* C20: PhStrMap::get(q) for a string q that was never inserted, long enough for
\* the stored range, and equal to a member key k inside the range, does not
\* return the value of k.
C20_NoTrimAlias ==
    (kind = "PhStrMap" /\ pc = "live" /\ ret.op = "extend") =>
        \A q \in Strs \ FullKeys : \A t \in Tokens :
            (Len(q) >= range.end
             /\ SubSeq(q, range.start + 1, range.end) = given[t].key)
            => ~(StrGet(q).some /\ StrGet(q).val = t)

\* C20 in general: get(q) for a never inserted q returns a value only if the full
\* string q has the hash of some member's full string.
C20_OnlyOnHashCollision ==
    (kind = "PhStrMap" /\ pc = "live" /\ ret.op = "extend") =>
        \A q \in Strs \ FullKeys :
            (Len(q) >= range.end /\ StrGet(q).some)
            => \E k \in FullKeys : HashOne(k) = HashOne(q)

=============================================================================
